---- MODULE Spec2Model ----
(***************************************************************************)
(* A model of brontes' trace loader (crates/brontes-core test_utils), the  *)
(* static protocol bindings (abi-builds/bindings.rs) and the shutdown of   *)
(* the binary's run() (crates/bin/src/main.rs).                            *)
(*                                                                         *)
(* u64 values are kept in a two's-complement window: a value v near 0 is   *)
(* the integer v, a value 2^64 - k is the integer -k.  Wrapping addition   *)
(* and subtraction of small constants are then plain integer arithmetic,   *)
(* and the unsigned order is ULe below.                                    *)
(***************************************************************************)
EXTENDS Integers, Sequences, FiniteSets, TLC

\* ------------------------------------------------------------------ bounds
\* Highest block number a caller asks metadata for.
MaxBlock == 2
\* How many of the highest u64 block numbers (u64::MAX downwards) are asked for too.
NearMax == 3
\* Longest block range given to get_block_traces_with_header_range.
MaxRangeLen == 11
\* Longest block range given to get_block_traces_with_header_and_metadata_range.
MaxMetaRangeLen == 2
\* Most transaction hashes given to get_tx_traces_with_header.
MaxHashes == 3
\* Longest call data given to try_decode.
MaxCallData == 6
\* Threads calling get_db_handle, and calls each makes.
NumCallers == 3
MaxCalls == 2
\* Highest end_block and max_tasks on the command line of the binary.
MaxEndBlock == 2
MaxCmdTasks == 2
\* Bytes of an address kept in the codec buffers, highest byte value drawn, longest
\* address list encoded, and longest byte string handed to decompress.
AddrLen == 2
MaxByte == 1
MaxAddrs == 2
MaxBytes == 3

\* ------------------------------------------------------------------ program constants
\* max_tasks, as TraceLoader::new passes it to init_trace_parser.
MaxTasks == 10

\* ------------------------------------------------------------------ state
VARIABLES
    op,             \* the TraceLoader operation being run: a record, name + arguments
    futs,           \* the futures handed to join_all (one for a direct call), in order
    libmdbx,        \* the metadata store: blocks with BlockInfo/CexPrice, blocks with dex prices
    clickhouse,     \* blocks the backfill source can supply
    overflowChecks, \* build profile: TRUE when integer overflow panics (debug), FALSE when it wraps
    ret,            \* what the operation returned; tag "None" while it runs
    binding,        \* the StaticBindings variant try_decode is invoked on
    call_data,      \* the bytes given to try_decode
    decoded,        \* what try_decode returned; tag "None" before the call
    cell,           \* DB_HANDLE, the OnceLock: its state and the handle it holds
    callers,        \* the threads calling get_db_handle: where each is, what it got
    envSet,         \* whether BRONTES_TEST_DB_PATH is set
    dbLog,          \* counts: runs of the initialiser, panics of it, successful init_db
    runPc,          \* where run() is
    cmd,            \* the command line: start_block, end_block, max_tasks
    tasks,          \* the futures run() selects over: "pending" or "ready"
    brontes,        \* the pipeline's block work: next block, blocks in flight, blocks finished
    runLog,         \* run()'s trail: calls of graceful_shutdown, the select's winner, the result
    codecOp,        \* the codec scenario on Redefined_PoolsToAddresses being run
    codecVal,       \* the value x handed to encode or compress_to_buf
    codecBuf,       \* the byte buffer: what was written, or the bytes handed to decompress
    codecOut,       \* what decode or decompress returned; tag "None" before the call
    codecPc         \* where the scenario is: "start", "written", "done"

loaderVars == <<op, futs, libmdbx, clickhouse, overflowChecks, ret>>

bindVars == <<binding, call_data, decoded>>

dbVars == <<cell, callers, envSet, dbLog>>

runVars == <<runPc, cmd, tasks, brontes, runLog>>

codecVars == <<codecOp, codecVal, codecBuf, codecOut, codecPc>>

vars == <<loaderVars, bindVars, dbVars, runVars, codecVars>>

\* The loader at rest, for the specifications of the other components.
IdleLoader ==
    /\ op = [name |-> "none"]
    /\ futs = << >>
    /\ libmdbx = [info |-> {}, dex |-> {}]
    /\ clickhouse = {}
    /\ overflowChecks = TRUE
    /\ ret = [tag |-> "None", block |-> 0]

IdleBind ==
    /\ binding = "UniswapV3"
    /\ call_data = << >>
    /\ decoded = [tag |-> "None"]

IdleDb ==
    /\ cell = [state |-> "uninit", handle |-> 0]
    /\ callers = << >>
    /\ envSet = TRUE
    /\ dbLog = [runs |-> 0, panics |-> 0, opens |-> 0, init_db |-> 0]

IdleRun ==
    /\ runPc = "none"
    /\ cmd = [start_block |-> 0, end_block |-> 0, max_tasks |-> 0]
    /\ tasks = << >>
    /\ brontes = [next |-> 0, inflight |-> {}, finished |-> {}, abandoned |-> {}]
    /\ runLog = [shutdowns |-> 0, winner |-> "none", result |-> "None", waited |-> FALSE]

IdleCodec ==
    /\ codecOp = "none"
    /\ codecVal = << >>
    /\ codecBuf = << >>
    /\ codecOut = [tag |-> "None"]
    /\ codecPc = "none"

Blocks == 0..MaxBlock

\* The block numbers get_metadata is asked for: the lowest ones and, as negative
\* integers of the window, u64::MAX (-1) and the ones just below it.
AskedBlocks == Blocks \cup {0 - k : k \in 1..NearMax}

\* ------------------------------------------------------------------ u64
\* Unsigned order on the window: negative integers stand for values just below 2^64.
ULe(a, b) == IF (a >= 0) = (b >= 0) THEN a <= b ELSE a >= 0

\* block - 2 and block + 2 leave the u64 range when the window's sign flips.
SubOverflows(a, k) == a >= 0 /\ a - k < 0
AddOverflows(a, k) == a < 0 /\ a + k >= 0

\* ------------------------------------------------------------------ results
NoResult == [tag |-> "None", block |-> 0]
OkMetadata(b) == [tag |-> "Ok", block |-> b]
NoMetadataFound(b) == [tag |-> "NoMetadataFound", block |-> b]
BlockTraceError(b) == [tag |-> "BlockTraceError", block |-> b]
EyreError(b) == [tag |-> "EyreError", block |-> b]
Panicked(b) == [tag |-> "Panic", block |-> b]

\* ------------------------------------------------------------------ the store
\* LibmdbxReadWriter::get_metadata_no_dex_price: block info and cex prices must be there.
get_metadata_no_dex_price(db, b) == b \in db.info

\* LibmdbxReadWriter::get_metadata: as above, and the dex prices of the block.
libmdbx_get_metadata(db, b) == b \in db.info /\ b \in db.dex

test_metadata_with_pricing(db, b) == libmdbx_get_metadata(db, b)

test_metadata(db, b) == get_metadata_no_dex_price(db, b)

\* LibmdbxReadWriter::initialize_tables over BlockInfo and CexPrice with
\* Some((lo, hi)): the blocks of the range the source has are written.
initialize_tables(db, ch, lo, hi) ==
    [db EXCEPT !.info = @ \cup {b \in ch : ULe(lo, b) /\ ULe(b, hi)}]

\* ------------------------------------------------------------------ get_metadata
\* A future: the block it works on, where it is suspended, its trail of calls.
\*   pc: "new" (not polled yet), "trace" (awaiting trace_block),
\*       "fetch" (awaiting initialize_tables inside fetch_missing_metadata), "done"
NewFut(b, p) ==
    [block |-> b, pricing |-> p, pc |-> "new", res |-> NoResult,
     lo |-> 0, hi |-> 0, ev |-> << >>]

LookupName(p) == IF p THEN "test_metadata_with_pricing" ELSE "test_metadata"

Lookup(db, b, p) == IF p THEN test_metadata_with_pricing(db, b) ELSE test_metadata(db, b)

\* One entry of a future's trail: the call made and how it came back.
Ev(c, o) == [call |-> c, out |-> o]

OutOf(ok) == IF ok THEN "Ok" ELSE "Err"

\* The range fetch_missing_metadata asks initialize_tables for.
BackfillLo(b) == b - 2

BackfillHi(b) == b + 2

\* fetch_missing_metadata up to its await: the range is computed, and under
\* overflow checks an out-of-range bound panics before anything is requested.
FetchMissingMetadataCall(f) ==
    IF overflowChecks /\ (SubOverflows(f.block, 2) \/ AddOverflows(f.block, 2))
    THEN [f EXCEPT !.pc = "done", !.res = Panicked(f.block),
                   !.ev = @ \o <<Ev("fetch_missing_metadata", "Panic")>>]
    ELSE [f EXCEPT !.pc = "fetch", !.lo = BackfillLo(f.block), !.hi = BackfillHi(f.block),
                   !.ev = @ \o <<Ev("fetch_missing_metadata", "Pending")>>]

\* get_metadata always asking for a backfill, found or not.
GetMetadataEnterAlwaysBackfill(f, db) ==
    FetchMissingMetadataCall(
        [f EXCEPT !.ev = @ \o <<Ev(LookupName(f.pricing), OutOf(Lookup(db, f.block, f.pricing)))>>])

\* get_metadata from its entry to its first suspension or return.
GetMetadataEnter(f, db) ==
    LET found == Lookup(db, f.block, f.pricing)
        g == [f EXCEPT !.ev = @ \o <<Ev(LookupName(f.pricing), OutOf(found))>>]
    IN  IF found
        THEN [g EXCEPT !.pc = "done", !.res = OkMetadata(f.block)]
        ELSE FetchMissingMetadataCall(g)

\* A get_metadata that drops the backfill's error and looks up again regardless.
RetryAlways(ok) == TRUE

\* Whether get_metadata looks the metadata up again: only when
\* fetch_missing_metadata returned Ok (`?` returns its error otherwise).
RetryAfterBackfill(ok) == ok

\* get_metadata resumed with the outcome of the backfill: `?` returns its error,
\* otherwise the same lookup is made once more against the store as it now is.
GetMetadataResume(f, db, ok) ==
    LET g == [f EXCEPT !.ev[Len(f.ev)] = Ev("fetch_missing_metadata", OutOf(ok))]
    IN  IF ~RetryAfterBackfill(ok)
        THEN [g EXCEPT !.pc = "done", !.res = EyreError(f.block)]
        ELSE LET found == Lookup(db, f.block, f.pricing)
                 h == [g EXCEPT !.ev = @ \o <<Ev(LookupName(f.pricing), OutOf(found))>>]
             IN  IF found
                 THEN [h EXCEPT !.pc = "done", !.res = OkMetadata(f.block)]
                 ELSE [h EXCEPT !.pc = "done", !.res = NoMetadataFound(f.block)]

\* ------------------------------------------------------------------ actions
\* TraceLoader::get_metadata(block, pricing) called directly: polled to its first await.
GetMetadataCall ==
    /\ op.name = "get_metadata"
    /\ Len(futs) = 1
    /\ futs[1].pc = "new"
    /\ futs' = <<GetMetadataEnter(futs[1], libmdbx)>>
    /\ UNCHANGED <<op, libmdbx, clickhouse, overflowChecks, ret>>
    /\ UNCHANGED <<bindVars, dbVars, runVars, codecVars>>

\* initialize_tables completes for future i, with Ok (the tables are written) or Err.
BackfillComplete(i) ==
    /\ i \in 1..Len(futs)
    /\ futs[i].pc = "fetch"
    /\ ret.tag = "None"
    /\ \E ok \in BOOLEAN :
         LET db == IF ok THEN initialize_tables(libmdbx, clickhouse, futs[i].lo, futs[i].hi)
                         ELSE libmdbx
         IN  /\ libmdbx' = db
             /\ futs' = [futs EXCEPT ![i] = GetMetadataResume(futs[i], db, ok)]
    /\ UNCHANGED <<op, clickhouse, overflowChecks, ret>>
    /\ UNCHANGED <<bindVars, dbVars, runVars, codecVars>>

\* get_metadata returns to its caller.
GetMetadataReturn ==
    /\ op.name = "get_metadata"
    /\ ret.tag = "None"
    /\ futs[1].pc = "done"
    /\ ret' = futs[1].res
    /\ UNCHANGED <<op, futs, libmdbx, clickhouse, overflowChecks>>
    /\ UNCHANGED <<bindVars, dbVars, runVars, codecVars>>

InitMetadata ==
    /\ \E b \in AskedBlocks, p \in BOOLEAN :
         /\ op = [name |-> "get_metadata", block |-> b, pricing |-> p]
         /\ futs = <<NewFut(b, p)>>
    /\ \E i \in SUBSET Blocks, d \in SUBSET Blocks : libmdbx = [info |-> i, dex |-> d]
    /\ clickhouse \in SUBSET Blocks
    /\ overflowChecks \in BOOLEAN
    /\ ret = NoResult
    /\ IdleBind /\ IdleDb /\ IdleRun /\ IdleCodec

NextMetadata ==
    \/ GetMetadataCall
    \/ BackfillComplete(1)
    \/ GetMetadataReturn

SpecMetadata == InitMetadata /\ [][NextMetadata]_vars

\* ------------------------------------------------------------------ block ranges
RangeOps == {"get_block_traces_with_header_range",
             "get_block_traces_with_header_and_metadata_range"}

WithMetadata == op.name = "get_block_traces_with_header_and_metadata_range"

\* BlockTracesWithHeaderAnd { block, .. } of a future that ended Ok.
OkBlock(b) == [tag |-> "Ok", block |-> b]

\* (start_block..=end_block).map(|block| async move { .. }): one future per block, in order.
RangeFuts(start, end) == [k \in 1..(end - start + 1) |-> NewFut(start + k - 1, FALSE)]

\* trace_block(block) is called: self.tracing_provider.execute_block(block).await.
\* The number of calls already awaiting is not consulted (_max_tasks is unused).
TraceBlockCall(f) ==
    [f EXCEPT !.pc = "trace", !.ev = @ \o <<Ev("trace_block", "Pending")>>]

\* The future resumed with the outcome of trace_block: `?` returns
\* BlockTraceError(block); otherwise the entry is built, after get_metadata(block, false)
\* in the metadata variant.
TraceBlockResume(f, db, ok, meta) ==
    LET g == [f EXCEPT !.ev[Len(f.ev)] = Ev("trace_block", OutOf(ok))]
    IN  IF ~ok THEN [g EXCEPT !.pc = "done", !.res = BlockTraceError(f.block)]
        ELSE IF meta THEN GetMetadataEnter(g, db)
        ELSE [g EXCEPT !.pc = "done", !.res = OkBlock(f.block)]

\* The first index of a result that is not Ok, 0 when all are.
FirstErr(results) ==
    IF \E k \in 1..Len(results) : results[k].tag # "Ok"
    THEN CHOOSE k \in 1..Len(results) :
            /\ results[k].tag # "Ok"
            /\ \A j \in 1..(k - 1) : results[j].tag = "Ok"
    ELSE 0

\* .into_iter().collect::<Result<Vec<_>, _>>(): the first Err in order, or all the values.
CollectResults(results) ==
    IF FirstErr(results) # 0
    THEN [tag |-> results[FirstErr(results)].tag,
          block |-> results[FirstErr(results)].block,
          items |-> << >>]
    ELSE [tag |-> "Ok", block |-> 0,
          items |-> [k \in 1..Len(results) |-> results[k].block]]

\* join_all's first poll: every future is polled once, in order, and each one
\* suspends in its trace_block call.
JoinAllFirstPoll ==
    /\ op.name \in RangeOps
    /\ ret.tag = "None"
    /\ \A i \in 1..Len(futs) : futs[i].pc = "new"
    /\ futs' = [i \in 1..Len(futs) |-> TraceBlockCall(futs[i])]
    /\ UNCHANGED <<op, libmdbx, clickhouse, overflowChecks, ret>>
    /\ UNCHANGED <<bindVars, dbVars, runVars, codecVars>>

\* trace_block of future i comes back, Ok or None (-> BlockTraceError).
TraceBlockComplete(i) ==
    /\ op.name \in RangeOps
    /\ ret.tag = "None"
    /\ futs[i].pc = "trace"
    /\ \E ok \in BOOLEAN :
         futs' = [futs EXCEPT ![i] = TraceBlockResume(futs[i], libmdbx, ok, WithMetadata)]
    /\ UNCHANGED <<op, libmdbx, clickhouse, overflowChecks, ret>>
    /\ UNCHANGED <<bindVars, dbVars, runVars, codecVars>>

\* join_all is ready once every future is; the results are collected in order.
\* A panic inside a future unwinds through join_all at once.
JoinAllCollect ==
    /\ op.name \in RangeOps
    /\ ret.tag = "None"
    /\ IF \E i \in 1..Len(futs) : futs[i].res.tag = "Panic"
       THEN ret' = [tag |-> "Panic", block |-> 0, items |-> << >>]
       ELSE /\ \A i \in 1..Len(futs) : futs[i].pc = "done"
            /\ ret' = CollectResults([i \in 1..Len(futs) |-> futs[i].res])
    /\ UNCHANGED <<op, futs, libmdbx, clickhouse, overflowChecks>>
    /\ UNCHANGED <<bindVars, dbVars, runVars, codecVars>>

InitRange ==
    /\ \E name \in RangeOps, start \in Blocks, len \in 1..MaxRangeLen :
         /\ name = "get_block_traces_with_header_and_metadata_range" => len <= MaxMetaRangeLen
         /\ op = [name |-> name, start |-> start, end |-> start + len - 1]
         /\ futs = RangeFuts(start, start + len - 1)
         /\ IF name = "get_block_traces_with_header_and_metadata_range"
            THEN /\ \E i \in SUBSET Blocks : libmdbx = [info |-> i, dex |-> {}]
                 /\ clickhouse \in SUBSET Blocks
                 /\ overflowChecks \in BOOLEAN
            ELSE /\ libmdbx = [info |-> {}, dex |-> {}]
                 /\ clickhouse = {}
                 /\ overflowChecks = TRUE
    /\ ret = NoResult
    /\ IdleBind /\ IdleDb /\ IdleRun /\ IdleCodec

NextRange ==
    \/ JoinAllFirstPoll
    \/ \E i \in 1..Len(futs) : TraceBlockComplete(i)
    \/ \E i \in 1..Len(futs) : BackfillComplete(i)
    \/ JoinAllCollect

SpecRange == InitRange /\ [][NextRange]_vars

\* ------------------------------------------------------------------ transactions
\* The chain the provider serves: four transactions in blocks 3, 4 and 5, each at
\* its index in its block (block_and_tx_index), and each block's transactions in
\* block order (what execute_block traces).
TxHashes == {"hA", "hB", "hC", "hD"}

TxBlock(h) == CASE h = "hA" -> 3 [] h = "hB" -> 3 [] h = "hC" -> 4 [] OTHER -> 5

TxIdx(h) == CASE h = "hB" -> 1 [] OTHER -> 0

BlockTxs(b) == CASE b = 3 -> <<"hA", "hB">> [] b = 4 -> <<"hC">> [] OTHER -> <<"hD">>

\* TxTrace: the fields the loader reads.
TxTrace(b, k) == [tx_index |-> k, tx_hash |-> BlockTxs(b)[k + 1]]

\* What execute_block(b) yields when it succeeds: one TxTrace per transaction.
BlockTraces(b) == [k \in 1..Len(BlockTxs(b)) |-> TxTrace(b, k - 1)]

NewTxFut(h) ==
    [tx_hash |-> h, pc |-> "new", block |-> 0, tx_idx |-> 0,
     res |-> [tag |-> "None", block |-> 0, tx_hash |-> h, trace |-> TxTrace(TxBlock(h), 0)]]

\* block_and_tx_index(tx_hash) is called.
BlockAndTxIndexCall(f) == [f EXCEPT !.pc = "index"]

\* ... and comes back: `?` returns the provider's error, otherwise trace_block(block)
\* is called.
BlockAndTxIndexResume(f, ok) ==
    IF ~ok THEN [f EXCEPT !.pc = "done", !.res.tag = "ProviderError"]
    ELSE [f EXCEPT !.pc = "trace", !.block = TxBlock(f.tx_hash), !.tx_idx = TxIdx(f.tx_hash)]

\* trace_block comes back: `?` returns BlockTraceError(block), otherwise
\* traces[tx_idx] is taken (a panic when out of bounds).
TxTraceBlockResume(f, ok) ==
    IF ~ok THEN [f EXCEPT !.pc = "done", !.res.tag = "BlockTraceError", !.res.block = f.block]
    ELSE IF f.tx_idx + 1 > Len(BlockTraces(f.block))
         THEN [f EXCEPT !.pc = "done", !.res.tag = "Panic"]
         ELSE [f EXCEPT !.pc = "done",
                        !.res = [tag |-> "Ok", block |-> f.block, tx_hash |-> f.tx_hash,
                                 trace |-> BlockTraces(f.block)[f.tx_idx + 1]]]

\* for_each over the results in order: an Ok result is pushed onto its block's
\* entry (Occupied) or starts it (Vacant); an Err result is passed over.
RECURSIVE Flatten(_, _)
Flatten(results, flattened) ==
    IF results = << >> THEN flattened
    ELSE LET r == Head(results)
         IN  Flatten(Tail(results),
                 IF r.tag # "Ok" THEN flattened
                 ELSE IF r.block \in DOMAIN flattened
                      THEN [flattened EXCEPT ![r.block].traces = Append(@, r.trace)]
                      ELSE [b \in DOMAIN flattened \cup {r.block} |->
                               IF b = r.block
                               THEN [block |-> r.block, traces |-> <<r.trace>>]
                               ELSE flattened[b]])

\* slice::sort_by is stable: each element goes behind those that are not greater.
RECURSIVE InsertByIndex(_, _)
InsertByIndex(sorted, t) ==
    IF sorted = << >> THEN <<t>>
    ELSE IF t.tx_index < Head(sorted).tx_index THEN <<t>> \o sorted
    ELSE <<Head(sorted)>> \o InsertByIndex(Tail(sorted), t)

RECURSIVE SortFrom(_, _)
SortFrom(sorted, rest) ==
    IF rest = << >> THEN sorted ELSE SortFrom(InsertByIndex(sorted, Head(rest)), Tail(rest))

\* The traces left in the order the results were pushed.
SortTracesOmitted(traces) == traces

\* traces.traces.sort_by(|t0, t1| t0.tx_index.cmp(&t1.tx_index))
SortTraces(traces) == SortFrom(<< >>, traces)

RECURSIVE InsertByBlock(_, _)
InsertByBlock(sorted, e) ==
    IF sorted = << >> THEN <<e>>
    ELSE IF e.block < Head(sorted).block THEN <<e>> \o sorted
    ELSE <<Head(sorted)>> \o InsertByBlock(Tail(sorted), e)

RECURSIVE SortBlocksFrom(_, _)
SortBlocksFrom(sorted, rest) ==
    IF rest = << >> THEN sorted
    ELSE SortBlocksFrom(InsertByBlock(sorted, Head(rest)), Tail(rest))

\* The entries left in the order the map handed them out.
SortByBlockOmitted(entries) == entries

\* res.sort_by(|a, b| a.block.cmp(&b.block))
SortByBlock(entries) == SortBlocksFrom(<< >>, entries)

\* The orders in which HashMap::into_values may hand out the entries.
ValueOrders(flattened) ==
    {o \in [1..Cardinality(DOMAIN flattened) -> DOMAIN flattened] :
        \A i, j \in DOMAIN o : i # j => o[i] # o[j]}

\* The tail of get_tx_traces_with_header, from the values in order o.
TxResult(flattened, o) ==
    [tag |-> "Ok",
     items |-> SortByBlock([k \in DOMAIN o |->
                  [flattened[o[k]] EXCEPT !.traces = SortTraces(@)]])]

\* join_all's first poll: every future is polled once and suspends in block_and_tx_index.
TxFirstPoll ==
    /\ op.name = "get_tx_traces_with_header"
    /\ ret.tag = "None"
    /\ Len(futs) > 0
    /\ \A i \in 1..Len(futs) : futs[i].pc = "new"
    /\ futs' = [i \in 1..Len(futs) |-> BlockAndTxIndexCall(futs[i])]
    /\ UNCHANGED <<op, libmdbx, clickhouse, overflowChecks, ret>>
    /\ UNCHANGED <<bindVars, dbVars, runVars, codecVars>>

BlockAndTxIndexComplete(i) ==
    /\ op.name = "get_tx_traces_with_header"
    /\ ret.tag = "None"
    /\ futs[i].pc = "index"
    /\ \E ok \in BOOLEAN : futs' = [futs EXCEPT ![i] = BlockAndTxIndexResume(futs[i], ok)]
    /\ UNCHANGED <<op, libmdbx, clickhouse, overflowChecks, ret>>
    /\ UNCHANGED <<bindVars, dbVars, runVars, codecVars>>

TxTraceBlockComplete(i) ==
    /\ op.name = "get_tx_traces_with_header"
    /\ ret.tag = "None"
    /\ futs[i].pc = "trace"
    /\ \E ok \in BOOLEAN : futs' = [futs EXCEPT ![i] = TxTraceBlockResume(futs[i], ok)]
    /\ UNCHANGED <<op, libmdbx, clickhouse, overflowChecks, ret>>
    /\ UNCHANGED <<bindVars, dbVars, runVars, codecVars>>

\* join_all is ready: the results are folded into the map, the map's values are
\* sorted, and Ok(res) is returned.
TxReturn ==
    /\ op.name = "get_tx_traces_with_header"
    /\ ret.tag = "None"
    /\ \A i \in 1..Len(futs) : futs[i].pc = "done"
    /\ IF \E i \in 1..Len(futs) : futs[i].res.tag = "Panic"
       THEN ret' = [tag |-> "Panic", items |-> << >>]
       ELSE LET flattened == Flatten([i \in 1..Len(futs) |-> futs[i].res], << >>)
            IN  \E o \in ValueOrders(flattened) : ret' = TxResult(flattened, o)
    /\ UNCHANGED <<op, futs, libmdbx, clickhouse, overflowChecks>>
    /\ UNCHANGED <<bindVars, dbVars, runVars, codecVars>>

InitTx ==
    /\ \E n \in 0..MaxHashes : \E hs \in [1..n -> TxHashes] :
         /\ op = [name |-> "get_tx_traces_with_header", tx_hashes |-> hs]
         /\ futs = [i \in 1..n |-> NewTxFut(hs[i])]
    /\ libmdbx = [info |-> {}, dex |-> {}]
    /\ clickhouse = {}
    /\ overflowChecks = TRUE
    /\ ret = [tag |-> "None", items |-> << >>]
    /\ IdleBind /\ IdleDb /\ IdleRun /\ IdleCodec

NextTx ==
    \/ TxFirstPoll
    \/ \E i \in 1..Len(futs) : BlockAndTxIndexComplete(i)
    \/ \E i \in 1..Len(futs) : TxTraceBlockComplete(i)
    \/ TxReturn

SpecTx == InitTx /\ [][NextTx]_vars

\* ------------------------------------------------------------------ static bindings
\* enum StaticBindings: its variants.
StaticBindings == {"UniswapV3", "UniswapV2", "SushiSwapV2"}

Byte == 0..1

\* A selector is the first four bytes of the call data.
SelectorLen == 4

\* The functions of an ABI: selector and length of the encoded arguments.
\* UniswapV2.json and SushiSwapV2.json describe the same functions.
V2Abi == {[selector |-> <<0, 0, 0, 1>>, args |-> 2], [selector |-> <<0, 0, 1, 0>>, args |-> 1]}

V3Abi == {[selector |-> <<0, 1, 0, 0>>, args |-> 2], [selector |-> <<0, 1, 1, 0>>, args |-> 0]}

AbiOf(schema) == IF schema = "UniswapV3" THEN V3Abi ELSE V2Abi

\* <Schema>_Enum::try_decode (impl_decode_sol!): the sol!-generated decoder of the
\* schema's call enum: too few bytes for a selector, an unknown selector and
\* truncated arguments are errors; otherwise the call with its arguments.
SchemaTryDecode(schema, data) ==
    IF Len(data) < SelectorLen THEN [tag |-> "Err", err |-> "TooShort"]
    ELSE LET sel == SubSeq(data, 1, SelectorLen)
             fs == {f \in AbiOf(schema) : f.selector = sel}
         IN  IF fs = {} THEN [tag |-> "Err", err |-> "UnknownSelector"]
             ELSE LET f == CHOOSE f \in fs : TRUE
                  IN  IF Len(data) < SelectorLen + f.args
                      THEN [tag |-> "Err", err |-> "Overrun"]
                      ELSE [tag |-> "Ok",
                            call |-> [selector |-> sel,
                                      args |-> SubSeq(data, SelectorLen + 1, SelectorLen + f.args)]]

\* Ok(StaticReturnBindings::<variant>(<schema>_Enum::try_decode(call_data)?))
DecodeAs(variant, schema, data) ==
    LET r == SchemaTryDecode(schema, data)
    IN  IF r.tag = "Err" THEN r
        ELSE [tag |-> "Ok", variant |-> variant, call |-> r.call]

\* try_decode with the SushiSwapV2 arm wrapping its result as UniswapV2.
try_decode_v2_tag(b, data) ==
    IF b = "UniswapV3" THEN DecodeAs("UniswapV3", "UniswapV3", data)
    ELSE IF b = "UniswapV2" THEN DecodeAs("UniswapV2", "UniswapV2", data)
    ELSE IF b = "SushiSwapV2" THEN DecodeAs("UniswapV2", "SushiSwapV2", data)
    ELSE [tag |-> "Panic"]

\* try_decode without an arm for SushiSwapV2.
try_decode_missing_arm(b, data) ==
    IF b = "UniswapV3" THEN DecodeAs("UniswapV3", "UniswapV3", data)
    ELSE IF b = "UniswapV2" THEN DecodeAs("UniswapV2", "UniswapV2", data)
    ELSE [tag |-> "Panic"]

\* StaticBindings::try_decode: the arms in order, then the wildcard arm's panic.
try_decode(b, data) ==
    IF b = "UniswapV3" THEN DecodeAs("UniswapV3", "UniswapV3", data)
    ELSE IF b = "UniswapV2" THEN DecodeAs("UniswapV2", "UniswapV2", data)
    ELSE IF b = "SushiSwapV2" THEN DecodeAs("SushiSwapV2", "SushiSwapV2", data)
    ELSE [tag |-> "Panic"]

TryDecode ==
    /\ decoded.tag = "None"
    /\ decoded' = try_decode(binding, call_data)
    /\ UNCHANGED <<binding, call_data>>
    /\ UNCHANGED <<loaderVars, dbVars, runVars, codecVars>>

InitDecode ==
    /\ binding \in StaticBindings
    /\ \E n \in 0..MaxCallData : call_data \in [1..n -> Byte]
    /\ decoded = [tag |-> "None"]
    /\ IdleLoader /\ IdleDb /\ IdleRun /\ IdleCodec

NextDecode == TryDecode

SpecDecode == InitDecode /\ [][NextDecode]_vars

\* ------------------------------------------------------------------ the database handle
Callers == 1..NumCallers

\* get_or_init starting the initialiser although another run of it is under way.
StartsInitUnlessSet(c) == c.state # "init"

\* OnceLock::get_or_init: the caller that finds the cell neither set nor being set
\* runs the initialiser; the others wait for it.
StartsInit(c) == c.state = "uninit"

\* A thread calls get_db_handle (from TraceLoader::new or directly).
GetDbHandle(t) ==
    /\ callers[t].pc = "idle"
    /\ callers[t].calls < MaxCalls
    /\ IF cell.state = "init"
       THEN /\ callers' = [callers EXCEPT ![t].calls = @ + 1,
                                          ![t].got = @ \cup {cell.handle}]
            /\ UNCHANGED <<cell, dbLog>>
       ELSE IF StartsInit(cell)
       THEN /\ callers' = [callers EXCEPT ![t].pc = "init"]
            /\ cell' = [cell EXCEPT !.state = "running"]
            /\ dbLog' = [dbLog EXCEPT !.runs = @ + 1]
       ELSE /\ callers' = [callers EXCEPT ![t].pc = "wait"]
            /\ UNCHANGED <<cell, dbLog>>
    /\ UNCHANGED envSet
    /\ UNCHANGED <<loaderVars, bindVars, runVars, codecVars>>

\* The initialiser: env::var(..).expect(..) panics without the variable;
\* LibmdbxReadWriter::init_db opens the database or fails, and a failure panics
\* (unwrap_or_else).  A panic leaves the cell unset; a value is stored once.
InitDbHandle(t) ==
    /\ callers[t].pc = "init"
    /\ \E opened \in BOOLEAN :
         IF envSet /\ opened
         THEN /\ cell' = [state |-> "init", handle |-> dbLog.opens + 1]
              /\ dbLog' = [dbLog EXCEPT !.opens = @ + 1, !.init_db = @ + 1]
              /\ callers' = [callers EXCEPT ![t].pc = "idle", ![t].calls = @ + 1,
                                            ![t].got = @ \cup {dbLog.opens + 1}]
         ELSE /\ cell' = IF cell.state = "init" THEN cell ELSE [cell EXCEPT !.state = "uninit"]
              /\ dbLog' = [dbLog EXCEPT !.panics = @ + 1,
                                         !.init_db = IF envSet THEN @ + 1 ELSE @]
              /\ callers' = [callers EXCEPT ![t].pc = "panicked"]
    /\ UNCHANGED envSet
    /\ UNCHANGED <<loaderVars, bindVars, runVars, codecVars>>

\* A waiting caller is woken: it returns the value stored, or, the run it waited
\* for having panicked, runs the initialiser itself.
GetDbHandleWake(t) ==
    /\ callers[t].pc = "wait"
    /\ cell.state # "running"
    /\ IF cell.state = "init"
       THEN /\ callers' = [callers EXCEPT ![t].pc = "idle", ![t].calls = @ + 1,
                                          ![t].got = @ \cup {cell.handle}]
            /\ UNCHANGED <<cell, dbLog>>
       ELSE /\ callers' = [callers EXCEPT ![t].pc = "init"]
            /\ cell' = [cell EXCEPT !.state = "running"]
            /\ dbLog' = [dbLog EXCEPT !.runs = @ + 1]
    /\ UNCHANGED envSet
    /\ UNCHANGED <<loaderVars, bindVars, runVars, codecVars>>

InitDb ==
    /\ cell = [state |-> "uninit", handle |-> 0]
    /\ callers = [t \in Callers |-> [pc |-> "idle", calls |-> 0, got |-> {}]]
    /\ envSet \in BOOLEAN
    /\ dbLog = [runs |-> 0, panics |-> 0, opens |-> 0, init_db |-> 0]
    /\ IdleLoader /\ IdleBind /\ IdleRun /\ IdleCodec

NextDb ==
    \/ \E t \in Callers : GetDbHandle(t)
    \/ \E t \in Callers : InitDbHandle(t)
    \/ \E t \in Callers : GetDbHandleWake(t)

SpecDb == InitDb /\ [][NextDb]_vars

\* ------------------------------------------------------------------ run()
\* The three futures of the select!, in the order of its branches.
SelectTasks == {"brontes", "manager", "metrics_listener"}

CmdBlocks == cmd.start_block..cmd.end_block

\* run() up to the select!: the command line is parsed and the collaborators are
\* built.  get_env_vars()? returns Err without DB_PATH; the expect/unwrap calls panic.
RunSetup ==
    /\ runPc = "start"
    /\ \E outcome \in {"Ok", "Err", "Panic"} :
         IF outcome = "Ok"
         THEN /\ runPc' = "select"
              /\ runLog' = [runLog EXCEPT !.waited = TRUE]
         ELSE /\ runPc' = "returned"
              /\ runLog' = [runLog EXCEPT !.result = outcome]
    /\ UNCHANGED <<cmd, tasks, brontes>>
    /\ UNCHANGED <<loaderVars, bindVars, dbVars, codecVars>>

\* Brontes, polled by the select!, admits the next block of its range while fewer
\* than max_tasks are in flight.
BrontesAdmit ==
    /\ runPc = "select"
    /\ brontes.next <= cmd.end_block
    /\ Cardinality(brontes.inflight) < cmd.max_tasks
    /\ brontes' = [brontes EXCEPT !.next = @ + 1, !.inflight = @ \cup {brontes.next}]
    /\ UNCHANGED <<runPc, cmd, tasks, runLog>>
    /\ UNCHANGED <<loaderVars, bindVars, dbVars, codecVars>>

\* A block in flight finishes; with the last block of the range the pipeline's
\* future is ready.
BrontesBlockDone(b) ==
    /\ runPc = "select"
    /\ b \in brontes.inflight
    /\ brontes' = [brontes EXCEPT !.inflight = @ \ {b}, !.finished = @ \cup {b}]
    /\ tasks' = IF brontes.finished \cup {b} = CmdBlocks
                THEN [tasks EXCEPT !["brontes"] = "ready"] ELSE tasks
    /\ UNCHANGED <<runPc, cmd, runLog>>
    /\ UNCHANGED <<loaderVars, bindVars, dbVars, codecVars>>

\* The task manager's future resolves (a critical task ended), or the metrics
\* listener's.
TaskCompletes(t) ==
    /\ runPc = "select"
    /\ t \in {"manager", "metrics_listener"}
    /\ tasks[t] = "pending"
    /\ tasks' = [tasks EXCEPT ![t] = "ready"]
    /\ UNCHANGED <<runPc, cmd, brontes, runLog>>
    /\ UNCHANGED <<loaderVars, bindVars, dbVars, codecVars>>

\* A select! that goes on only when every branch is ready.
SelectReadyAll(ts) == \A t \in SelectTasks : ts[t] = "ready"

\* tokio::select!: the wait is over when one of the branches is ready.
SelectReady(ts) == \E t \in SelectTasks : ts[t] = "ready"

\* The select! returns with one of the ready branches; the other futures are
\* not polled again.
SelectReturn ==
    /\ runPc = "select"
    /\ SelectReady(tasks)
    /\ \E t \in SelectTasks :
         /\ tasks[t] = "ready"
         /\ runLog' = [runLog EXCEPT !.winner = t]
    /\ runPc' = "shutdown"
    /\ UNCHANGED <<cmd, tasks, brontes>>
    /\ UNCHANGED <<loaderVars, bindVars, dbVars, codecVars>>

\* manager.graceful_shutdown()
GracefulShutdown ==
    /\ runPc = "shutdown"
    /\ runLog' = [runLog EXCEPT !.shutdowns = @ + 1]
    /\ runPc' = "return"
    /\ UNCHANGED <<cmd, tasks, brontes>>
    /\ UNCHANGED <<loaderVars, bindVars, dbVars, codecVars>>

\* Ok(()): run's locals are dropped, the pinned pipeline with the blocks it still
\* had in flight among them.
RunReturn ==
    /\ runPc = "return"
    /\ runLog' = [runLog EXCEPT !.result = "Ok"]
    /\ brontes' = [brontes EXCEPT !.inflight = {}, !.abandoned = brontes.inflight]
    /\ runPc' = "returned"
    /\ UNCHANGED <<cmd, tasks>>
    /\ UNCHANGED <<loaderVars, bindVars, dbVars, codecVars>>

InitRun ==
    /\ runPc = "start"
    /\ \E e \in 0..MaxEndBlock, m \in 1..MaxCmdTasks :
         cmd = [start_block |-> 0, end_block |-> e, max_tasks |-> m]
    /\ tasks = [t \in SelectTasks |-> "pending"]
    /\ brontes = [next |-> 0, inflight |-> {}, finished |-> {}, abandoned |-> {}]
    /\ runLog = [shutdowns |-> 0, winner |-> "none", result |-> "None", waited |-> FALSE]
    /\ IdleLoader /\ IdleBind /\ IdleDb /\ IdleCodec

NextRun ==
    \/ RunSetup
    \/ BrontesAdmit
    \/ \E b \in CmdBlocks : BrontesBlockDone(b)
    \/ \E t \in SelectTasks : TaskCompletes(t)
    \/ SelectReturn
    \/ GracefulShutdown
    \/ RunReturn

SpecRun == InitRun /\ [][NextRun]_vars

\* ------------------------------------------------------------------ storage codec
\* Redefined_PoolsToAddresses(Vec<Redefined_Address>): lists of addresses, an address
\* being AddrLen bytes.
CodecByte == 0..MaxByte

Redefined_Address == [1..AddrLen -> CodecByte]

Redefined_PoolsToAddresses ==
    UNION {[1..n -> Redefined_Address] : n \in 0..MaxAddrs}

\* Byte strings up to a length.
ByteStrings(n) == UNION {[1..k -> CodecByte] : k \in 0..n}

RECURSIVE Concat(_)
\* The elements of a list of byte strings laid out one after the other.
Concat(ss) == IF ss = << >> THEN << >> ELSE Head(ss) \o Concat(Tail(ss))

\* rkyv::to_bytes of the value: the elements first, then the root object, an
\* ArchivedVec made of the distance from the root back to the first element and of
\* the element count. The root is the last thing written.
rkyv_to_bytes(x) == Concat(x) \o <<Len(x) * AddrLen, Len(x)>>

\* Where archived_root looks for the root: the last two cells of the buffer.
RootPos(buf) == Len(buf) - 1

\* The reads archived_root and deserialize make stay inside the buffer.
ArchiveInBounds(buf) ==
    /\ RootPos(buf) >= 1
    /\ LET first == RootPos(buf) - buf[RootPos(buf)]
           n == buf[Len(buf)]
       IN  n = 0 \/ (first >= 1 /\ first + n * AddrLen - 1 <= Len(buf))

\* What deserialize copies out of an archive whose reads are in bounds.
ArchivedValue(buf) ==
    LET first == RootPos(buf) - buf[RootPos(buf)]
        n == buf[Len(buf)]
    IN  [i \in 1..n |-> SubSeq(buf, first + (i - 1) * AddrLen, first + i * AddrLen - 1)]

\* Encodable::encode: the archive appended to out.
encode(x, out) == out \o rkyv_to_bytes(x)

\* Decodable::decode: archived_root without validation, deserialize, Ok(this). A read
\* outside the buffer is undefined: the process dies or some value comes back. No
\* path returns Err.
decode(buf) ==
    IF ArchiveInBounds(buf)
    THEN {[tag |-> "Ok", val |-> ArchivedValue(buf)]}
    ELSE {[tag |-> "Abort"]} \cup {[tag |-> "Ok", val |-> v] : v \in Redefined_PoolsToAddresses}

\* The magic number a zstd frame starts with.
ZstdMagic == <<40, 181, 47, 253>>

\* zstd::encode_all: one frame, the magic number, the content size, the content.
zstd_encode_all(data) == ZstdMagic \o <<Len(data)>> \o data

RECURSIVE zstd_decode_all(_)
\* zstd::decode_all: the contents of the frames up to the end of the input, Err when
\* what is left is not a whole frame.
zstd_decode_all(bytes) ==
    IF bytes = << >> THEN [tag |-> "Ok", data |-> << >>]
    ELSE IF /\ Len(bytes) > Len(ZstdMagic)
            /\ SubSeq(bytes, 1, Len(ZstdMagic)) = ZstdMagic
            /\ Len(bytes) >= Len(ZstdMagic) + 1 + bytes[Len(ZstdMagic) + 1]
         THEN LET hdr == Len(ZstdMagic) + 1
                  size == bytes[hdr]
                  rest == zstd_decode_all(SubSeq(bytes, hdr + size + 1, Len(bytes)))
              IN  IF rest.tag = "Ok"
                  THEN [tag |-> "Ok", data |-> SubSeq(bytes, hdr + 1, hdr + size) \o rest.data]
                  ELSE rest
         ELSE [tag |-> "Err"]

\* Compress::compress_to_buf: encode into a fresh Vec, zstd-compress, append to buf.
compress_to_buf(x, buf) == buf \o zstd_encode_all(encode(x, << >>))

\* map_err(|_| DatabaseError::Decode) on the result of decode.
MapErrDecode(r) == IF r.tag = "Err" THEN [tag |-> "Err", err |-> "Decode"] ELSE r

\* Decompress::decompress: decode_all(..).unwrap() panics on Err, then decode.
decompress(value) ==
    LET d == zstd_decode_all(value)
    IN  IF d.tag = "Err" THEN {[tag |-> "Panic"]}
        ELSE {MapErrDecode(r) : r \in decode(d.data)}

\* The byte strings handed to decompress by themselves: short strings, and whole
\* zstd frames around short strings.
StoredBytes ==
    ByteStrings(MaxBytes) \cup {zstd_encode_all(b) : b \in ByteStrings(MaxBytes)}

Encode ==
    /\ codecOp = "encode_decode" /\ codecPc = "start"
    /\ codecBuf' = encode(codecVal, codecBuf)
    /\ codecPc' = "written"
    /\ UNCHANGED <<codecOp, codecVal, codecOut>>
    /\ UNCHANGED <<loaderVars, bindVars, dbVars, runVars>>

Decode ==
    /\ codecOp = "encode_decode" /\ codecPc = "written"
    /\ codecOut' \in decode(codecBuf)
    /\ codecPc' = "done"
    /\ UNCHANGED <<codecOp, codecVal, codecBuf>>
    /\ UNCHANGED <<loaderVars, bindVars, dbVars, runVars>>

CompressToBuf ==
    /\ codecOp = "compress_decompress" /\ codecPc = "start"
    /\ codecBuf' = compress_to_buf(codecVal, codecBuf)
    /\ codecPc' = "written"
    /\ UNCHANGED <<codecOp, codecVal, codecOut>>
    /\ UNCHANGED <<loaderVars, bindVars, dbVars, runVars>>

Decompress ==
    /\ \/ codecOp = "compress_decompress" /\ codecPc = "written"
       \/ codecOp = "decompress" /\ codecPc = "start"
    /\ codecOut' \in decompress(codecBuf)
    /\ codecPc' = "done"
    /\ UNCHANGED <<codecOp, codecVal, codecBuf>>
    /\ UNCHANGED <<loaderVars, bindVars, dbVars, runVars>>

InitCodec ==
    /\ \/ /\ codecOp \in {"encode_decode", "compress_decompress"}
          /\ codecVal \in Redefined_PoolsToAddresses
          /\ codecBuf = << >>
       \/ /\ codecOp = "decompress"
          /\ codecVal = << >>
          /\ codecBuf \in StoredBytes
    /\ codecOut = [tag |-> "None"]
    /\ codecPc = "start"
    /\ IdleLoader /\ IdleBind /\ IdleDb /\ IdleRun

NextCodec ==
    \/ Encode
    \/ Decode
    \/ CompressToBuf
    \/ Decompress

SpecCodec == InitCodec /\ [][NextCodec]_vars

\* ================================================================== claims
\* ------------------------------------------------------------------ get_metadata
\* The calls of a trail that are metadata lookups, and those that are backfills.
IsLookup(e) == e.call \in {"test_metadata", "test_metadata_with_pricing"}

IsBackfill(e) == e.call = "fetch_missing_metadata"

NumLookups(ev) == Cardinality({k \in 1..Len(ev) : IsLookup(ev[k])})

NumBackfills(ev) == Cardinality({k \in 1..Len(ev) : IsBackfill(ev[k])})

FirstLookupFailed(ev) == Len(ev) >= 1 /\ IsLookup(ev[1]) /\ ev[1].out = "Err"

BackfillOut(ev) == IF Len(ev) >= 2 /\ IsBackfill(ev[2]) THEN ev[2].out ELSE "None"

\* C1 as stated: whenever the first lookup failed, get_metadata ends with exactly one
\* backfill and exactly two lookups of the same kind, and a failed retry gives
\* NoMetadataFound(block).  Runs that end in a panic are left aside here.
C1_Original ==
    (ret.tag \notin {"None", "Panic"} /\ FirstLookupFailed(futs[1].ev)) =>
        /\ NumBackfills(futs[1].ev) = 1
        /\ NumLookups(futs[1].ev) = 2
        /\ futs[1].ev[3].call = futs[1].ev[1].call
        /\ (futs[1].ev[3].out = "Err" => ret = NoMetadataFound(op.block))

\* C1 amended: get_metadata never makes a second backfill or a third lookup; when the
\* first lookup failed it calls fetch_missing_metadata exactly once, and it retries
\* the same lookup exactly once if and only if that call returned Ok; a failed retry
\* gives NoMetadataFound(block); without an Ok backfill no retry is made.
C1_BoundedRetry ==
    LET ev == futs[1].ev
    IN  /\ NumBackfills(ev) <= 1
        /\ NumLookups(ev) <= 2
        /\ (ret.tag # "None" /\ FirstLookupFailed(ev)) =>
              /\ NumBackfills(ev) = 1
              /\ IsBackfill(ev[2])
              /\ IF BackfillOut(ev) = "Ok"
                 THEN /\ Len(ev) = 3
                      /\ ev[3].call = ev[1].call
                      /\ ev[1].call = LookupName(op.pricing)
                      /\ ret = IF ev[3].out = "Ok" THEN OkMetadata(op.block)
                                                    ELSE NoMetadataFound(op.block)
                 ELSE /\ Len(ev) = 2
                      /\ NumLookups(ev) = 1
                      /\ ret.tag \in {"EyreError", "Panic"}

\* C1's case: first lookup failed, the backfill returned Ok, the retry failed too.
C1_Witness ==
    /\ ret = NoMetadataFound(op.block)
    /\ FirstLookupFailed(futs[1].ev)
    /\ BackfillOut(futs[1].ev) = "Ok"
    /\ Len(futs[1].ev) = 3
    /\ futs[1].ev[3].out = "Err"

\* C10: a backfill is requested iff the first lookup failed.  A successful first
\* lookup is returned with no call of fetch_missing_metadata; a failed one is followed
\* by fetch_missing_metadata before any further lookup; and when the backfill fails
\* its error is returned and no retry lookup is made.
C10_BackfillIffNotFound ==
    LET ev == futs[1].ev
    IN  /\ (Len(ev) >= 1) => IsLookup(ev[1])
        /\ (Len(ev) >= 1 /\ ev[1].out = "Ok") =>
              /\ Len(ev) = 1
              /\ futs[1].res = OkMetadata(op.block)
              /\ ret.tag \in {"None", "Ok"}
        /\ (Len(ev) >= 1 /\ ev[1].out = "Err") =>
              /\ Len(ev) >= 2
              /\ IsBackfill(ev[2])
              /\ \A k \in 2..Len(ev) : IsLookup(ev[k]) => k > 2
        /\ (NumBackfills(ev) >= 1) <=> FirstLookupFailed(ev)
        /\ (BackfillOut(ev) = "Err") =>
              /\ NumLookups(ev) = 1
              /\ futs[1].res = EyreError(op.block)
              /\ ret.tag \in {"None", "EyreError"}

\* C10's case: the backfill itself failed and get_metadata returned its error.
C10_Witness ==
    /\ ret = EyreError(op.block)
    /\ BackfillOut(futs[1].ev) = "Err"
    /\ NumLookups(futs[1].ev) = 1

\* The futures that have called fetch_missing_metadata.
Backfilling == {i \in 1..Len(futs) : \E k \in 1..Len(futs[i].ev) : IsBackfill(futs[i].ev[k])}

\* C12: for every u64 block, fetch_missing_metadata(block) computes its range without
\* a panic and asks for a backfill over (lo, hi) with lo <= block <= hi in the
\* unsigned order: no underflow for blocks 0 and 1, no overflow above u64::MAX - 2.
C12_RangeCoversBlock ==
    \A i \in Backfilling :
        /\ futs[i].res.tag # "Panic"
        /\ ULe(futs[i].lo, futs[i].block)
        /\ ULe(futs[i].block, futs[i].hi)

\* ------------------------------------------------------------------ block ranges
\* C3: failure is isolated per block: whenever a range call has returned, every block
\* of the range whose own future ended Ok is among the returned entries, so the call
\* returned Ok although another block failed.
C3_FailureIsolated ==
    (op.name \in RangeOps /\ ret.tag \notin {"None", "Panic"}) =>
        \A i \in 1..Len(futs) :
            futs[i].res.tag = "Ok" =>
                /\ ret.tag = "Ok"
                /\ \E k \in 1..Len(ret.items) : ret.items[k] = futs[i].block

\* The trace_block calls awaiting their result.
InFlight == {i \in 1..Len(futs) : futs[i].pc = "trace"}

\* C5: at every point of a range call at most max_tasks trace_block calls are in flight.
C5_AtMostMaxTasksInFlight ==
    (op.name \in RangeOps /\ ret.tag = "None") => Cardinality(InFlight) <= MaxTasks

\* ------------------------------------------------------------------ transactions
TxDone == op.name = "get_tx_traces_with_header" /\ ret.tag # "None"

\* C2: whatever the order of the hashes and of the completions, the entries
\* get_tx_traces_with_header returns are in strictly ascending block number, so
\* that each block number appears in exactly one entry.
C2_AscendingBlocks ==
    TxDone =>
        /\ ret.tag = "Ok"
        /\ \A i, j \in 1..Len(ret.items) : i < j => ret.items[i].block < ret.items[j].block
        /\ \A k \in 1..Len(futs) :
              futs[k].res.tag = "Ok" =>
                  Cardinality({i \in 1..Len(ret.items) : ret.items[i].block = futs[k].block}) = 1

\* C2's case: hashes of blocks 5, 3, 4 given in that order come back as 3, 4, 5.
C2_Witness ==
    /\ TxDone
    /\ op.tx_hashes = <<"hD", "hB", "hC">>
    /\ Len(ret.items) = 3
    /\ ret.items[1].block = 3 /\ ret.items[2].block = 4 /\ ret.items[3].block = 5

\* C4: no silent data loss: once get_tx_traces_with_header has returned, every hash
\* it was given has its trace among the returned entries, or the call returned an error.
C4_NoSilentLoss ==
    (TxDone /\ ret.tag = "Ok") =>
        \A k \in 1..Len(op.tx_hashes) :
            \E i \in 1..Len(ret.items) : \E t \in 1..Len(ret.items[i].traces) :
                ret.items[i].traces[t].tx_hash = op.tx_hashes[k]

\* The (entry, position) pairs of the traces returned.
ReturnedTraces ==
    {p \in (1..Len(ret.items)) \X (1..Len(futs)) : p[2] <= Len(ret.items[p[1]].traces)}

\* C11: in every entry get_tx_traces_with_header returns, the traces are in
\* non-decreasing tx_index whatever the order of the hashes; and the traces returned
\* are as many as the hashes whose lookup and block trace succeeded, a hash given
\* twice counting twice.
C11_TracesByIndex ==
    (TxDone /\ ret.tag = "Ok") =>
        /\ \A i \in 1..Len(ret.items) :
              \A j, k \in 1..Len(ret.items[i].traces) :
                  j < k => ret.items[i].traces[j].tx_index <= ret.items[i].traces[k].tx_index
        /\ Cardinality(ReturnedTraces) =
              Cardinality({k \in 1..Len(futs) : futs[k].res.tag = "Ok"})

\* C11's case: the hash at index 1 of block 3 given twice, then the one at index 0;
\* all three succeed and come back as indices 0, 1, 1.
C11_Witness ==
    /\ TxDone
    /\ op.tx_hashes = <<"hB", "hB", "hA">>
    /\ Len(ret.items) = 1
    /\ Len(ret.items[1].traces) = 3
    /\ ret.items[1].traces[1].tx_hash = "hA"
    /\ ret.items[1].traces[3].tx_index = 1

\* ------------------------------------------------------------------ static bindings
\* The binding with the same ABI as b, among UniswapV2 and SushiSwapV2.
AbiTwin(b) == IF b = "UniswapV2" THEN "SushiSwapV2" ELSE "UniswapV2"

\* C6: a decoded call carries the variant of the binding try_decode was invoked on;
\* call data that decodes through UniswapV2 decodes to the same call through
\* SushiSwapV2 (and back), tagged with the other binding.
C6_TagIsBinding ==
    /\ decoded.tag = "Ok" => decoded.variant = binding
    /\ (decoded.tag # "None" /\ binding \in {"UniswapV2", "SushiSwapV2"}) =>
          LET other == try_decode(AbiTwin(binding), call_data)
          IN  /\ other.tag = decoded.tag
              /\ decoded.tag = "Ok" =>
                    /\ other.call = decoded.call
                    /\ other.variant = AbiTwin(binding)
                    /\ other.variant # decoded.variant

\* C6's case: call data decoded through the SushiSwapV2 binding.
C6_Witness ==
    /\ binding = "SushiSwapV2"
    /\ decoded.tag = "Ok"
    /\ decoded.variant = "SushiSwapV2"
    /\ Len(decoded.call.args) = 2

\* C7: for every binding variant and every call data, try_decode returns Ok or Err;
\* the wildcard arm's panic is reached for no variant.
C7_OkOrErr ==
    /\ binding \in StaticBindings
    /\ decoded.tag \in {"None", "Ok", "Err"}

\* C7's case: a matched selector with truncated arguments, through the last arm.
C7_Witness ==
    /\ binding = "SushiSwapV2"
    /\ decoded = [tag |-> "Err", err |-> "Overrun"]
    /\ Len(call_data) = SelectorLen + 1

\* ------------------------------------------------------------------ the database handle
\* The handles get_db_handle has returned, over all callers.
HandlesReturned == UNION {callers[t].got : t \in Callers}

\* C8 as stated: the initialiser's call of init_db is made at most once, and all
\* calls return one handle.
C8_Original ==
    /\ dbLog.init_db <= 1
    /\ Cardinality(HandlesReturned) <= 1

\* C8 amended: for any interleaving of callers, the database is opened successfully
\* at most once and no two runs of the initialiser overlap; the initialiser runs
\* again only after a run of it panicked; every call that returns, returns the
\* one handle stored.
C8_SingleInit ==
    /\ dbLog.opens <= 1
    /\ Cardinality({t \in Callers : callers[t].pc = "init"}) <= 1
    /\ dbLog.runs <= dbLog.panics + 1
    /\ Cardinality(HandlesReturned) <= 1
    /\ HandlesReturned # {} => (cell.state = "init" /\ HandlesReturned = {cell.handle})
    /\ cell.state = "init" <=> dbLog.opens = 1

\* C8's case: a run of the initialiser panicked, a later one opened the database,
\* and two callers hold the handle.
C8_Witness ==
    /\ dbLog.panics >= 1
    /\ dbLog.opens = 1
    /\ Cardinality({t \in Callers : callers[t].got # {}}) >= 2

\* ------------------------------------------------------------------ run()
\* C9: the wait of run() ends as soon as one of the three tasks is ready (the select
\* can return whenever one is, and never returns before); graceful_shutdown is
\* then called exactly once, never before a task has completed; run returns Ok(())
\* whichever task won; and after the return no block of the pipeline is in flight:
\* each is finished or abandoned.
C9_Shutdown ==
    /\ (runPc = "select" /\ \E t \in SelectTasks : tasks[t] = "ready") => ENABLED SelectReturn
    /\ runPc \in {"shutdown", "return"} => \E t \in SelectTasks : tasks[t] = "ready"
    /\ runLog.winner # "none" => tasks[runLog.winner] = "ready"
    /\ runLog.shutdowns <= 1
    /\ runLog.shutdowns = 1 => (runLog.winner # "none" /\ runPc \in {"return", "returned"})
    /\ runPc = "return" => runLog.shutdowns = 1
    /\ (runPc = "returned" /\ runLog.waited) =>
          /\ runLog.shutdowns = 1
          /\ runLog.result = "Ok"
          /\ brontes.inflight = {}
          /\ brontes.finished \cup brontes.abandoned = 0..(brontes.next - 1)

\* C9's case: the task manager ended first, with a block of the pipeline in flight;
\* run shut down once and returned Ok, the block abandoned.
C9_Witness ==
    /\ runPc = "returned"
    /\ runLog.winner = "manager"
    /\ tasks["brontes"] = "pending"
    /\ runLog.shutdowns = 1
    /\ runLog.result = "Ok"
    /\ brontes.abandoned # {}

\* ------------------------------------------------------------------ storage codec
\* The byte strings compress_to_buf writes for some value.
ValidCompressed(b) == \E x \in Redefined_PoolsToAddresses : b = compress_to_buf(x, << >>)

\* C13: the codec of Redefined_PoolsToAddresses is a round trip, decode(encode(x)) = x
\* and decompress(compress_to_buf(x)) = x for every list of addresses x, the empty
\* one included; and decompress of bytes that are not a valid compressed encoding
\* returns Err(DatabaseError::Decode) instead of aborting.
C13_CodecRoundTrip ==
    codecPc = "done" =>
        /\ codecOp \in {"encode_decode", "compress_decompress"} =>
               codecOut = [tag |-> "Ok", val |-> codecVal]
        /\ (codecOp = "decompress" /\ ~ValidCompressed(codecBuf)) =>
               codecOut = [tag |-> "Err", err |-> "Decode"]

====
